---- MODULE Spec2Model ----
(***************************************************************************)
(* Model of pvder/utility_functions_numba.py: stateless calculations on    *)
(* electrical quantities (phasors, d-q-0 quantities, symmetrical           *)
(* components, PV power).                                                  *)
(*                                                                         *)
(* Number model.  The algebraic functions are evaluated in exact           *)
(* arithmetic over the field Q(sqrt 3): a real number is a record          *)
(* [a, b, d] standing for (a + b*sqrt(3))/d in lowest terms with d > 0.    *)
(* Angles are counted in units of pi/6 (30 degrees), for which cos and sin *)
(* lie in that field, so a rotation by 120 degrees is computed exactly.    *)
(* A complex number is a record [re, im] of two such reals.                *)
(***************************************************************************)
EXTENDS Integers, Sequences, FiniteSets, TLC

VARIABLES args, ret

vars == <<args, ret>>

\* A function that has not been called yet has the empty tuple as its result.
NotCalled == <<>>

(***************************************************************************)
(* Exact real arithmetic in Q(sqrt 3).                                     *)
(***************************************************************************)
Abs(n) == IF n < 0 THEN -n ELSE n

RECURSIVE GCD(_, _)
GCD(m, n) == IF n = 0 THEN m ELSE GCD(n, m % n)

\* (a + b*sqrt(3))/d in lowest terms, d > 0.
Q3(a, b, d) ==
    LET s == IF d < 0 THEN -1 ELSE 1
        g == GCD(GCD(Abs(a), Abs(b)), Abs(d))
    IN  [a |-> (s * a) \div g, b |-> (s * b) \div g, d |-> (s * d) \div g]

Int2R(n) == Q3(n, 0, 1)
Rat(n, d) == Q3(n, 0, d)

RAdd(x, y) == Q3(x.a * y.d + y.a * x.d, x.b * y.d + y.b * x.d, x.d * y.d)
RNeg(x) == Q3(-x.a, -x.b, x.d)
RSub(x, y) == RAdd(x, RNeg(y))
RMul(x, y) == Q3(x.a * y.a + 3 * x.b * y.b, x.a * y.b + x.b * y.a, x.d * y.d)

\* Sign of (a + b*sqrt(3))/d: -1, 0 or 1.
RSign(x) ==
    IF x.a = 0 /\ x.b = 0 THEN 0
    ELSE IF x.a >= 0 /\ x.b >= 0 THEN 1
    ELSE IF x.a <= 0 /\ x.b <= 0 THEN -1
    ELSE IF x.a > 0 THEN (IF x.a * x.a > 3 * x.b * x.b THEN 1 ELSE -1)
    ELSE (IF 3 * x.b * x.b > x.a * x.a THEN 1 ELSE -1)

RIsZero(x) == RSign(x) = 0
RLt(x, y) == RSign(RSub(y, x)) = 1
RLe(x, y) == RSign(RSub(y, x)) >= 0

\* 1/y for y # 0: (a - b*sqrt(3))*d / (a^2 - 3*b^2).
RInv(y) == Q3(y.a * y.d, -(y.b * y.d), y.a * y.a - 3 * y.b * y.b)
RDiv(x, y) == RMul(x, RInv(y))

\* Python's max(x, y) and min(x, y) of two reals.
RMax(x, y) == IF RLt(x, y) THEN y ELSE x
RMin(x, y) == IF RLt(y, x) THEN y ELSE x

(***************************************************************************)
(* Angles in units of pi/6, and the circular functions on them.            *)
(***************************************************************************)
\* math.pi, in units of pi/6.
Pi == 6

AngleMod(k) == k % (2 * Pi)

\* math.cos on multiples of pi/6.
Cos(k) ==
    LET m == AngleMod(k)
    IN  CASE m = 0 -> Q3(1, 0, 1)
          [] m \in {1, 11} -> Q3(0, 1, 2)
          [] m \in {2, 10} -> Q3(1, 0, 2)
          [] m \in {3, 9} -> Q3(0, 0, 1)
          [] m \in {4, 8} -> Q3(-1, 0, 2)
          [] m \in {5, 7} -> Q3(0, -1, 2)
          [] m = 6 -> Q3(-1, 0, 1)

\* math.sin on multiples of pi/6.
Sin(k) == Cos(k - Pi \div 2)

(***************************************************************************)
(* Complex arithmetic.                                                     *)
(***************************************************************************)
Cx(re, im) == [re |-> re, im |-> im]
CZero == Cx(Int2R(0), Int2R(0))
CReal(x) == Cx(x, Int2R(0))

CAdd(z, w) == Cx(RAdd(z.re, w.re), RAdd(z.im, w.im))
CMul(z, w) == Cx(RSub(RMul(z.re, w.re), RMul(z.im, w.im)),
                 RAdd(RMul(z.re, w.im), RMul(z.im, w.re)))
\* real * complex
CScale(x, z) == Cx(RMul(x, z.re), RMul(x, z.im))
\* z.conjugate()
Conj(z) == Cx(z.re, RNeg(z.im))

\* pow(math.e, 1j*k) and np.power(np.e, 1j*k): the unit phasor at angle k.
ExpJ(k) == Cx(Cos(k), Sin(k))

(***************************************************************************)
(* Reference-frame transforms.                                             *)
(***************************************************************************)
\* (2/3)*math.pi
TwoThirdsPi == (2 * Pi) \div 3

\* abc_to_dq0(ua, ub, uc, wt): real phase quantities to (ud, uq, u0).
abc_to_dq0(ua, ub, uc, wt) ==
    LET Us == CMul(CScale(Rat(2, 3),
                          CAdd(CAdd(CReal(ua), CScale(ub, ExpJ(TwoThirdsPi))),
                               CScale(uc, ExpJ(-TwoThirdsPi)))),
                   ExpJ(-wt))
        ud == Us.re
        uq == Us.im
        u0 == RMul(Rat(1, 3), RAdd(RAdd(ua, ub), uc))
    IN  <<ud, uq, u0>>

\* dq0_to_abc with the sign of the quadrature term flipped.
dq0_to_abc_plus_uq(ud, uq, u0, wt) ==
    LET ua == RAdd(RAdd(RMul(ud, Cos(wt)), RMul(uq, Sin(wt))), u0)
        ub == RAdd(RAdd(RMul(ud, Cos(wt - TwoThirdsPi)),
                        RMul(uq, Sin(wt - TwoThirdsPi))), u0)
        uc == RAdd(RAdd(RMul(ud, Cos(wt + TwoThirdsPi)),
                        RMul(uq, Sin(wt + TwoThirdsPi))), u0)
    IN  <<ua, ub, uc>>

\* dq0_to_abc(ud, uq, u0, wt): (ud, uq, u0) to real phase quantities.
dq0_to_abc(ud, uq, u0, wt) ==
    LET ua == RAdd(RSub(RMul(ud, Cos(wt)), RMul(uq, Sin(wt))), u0)
        ub == RAdd(RSub(RMul(ud, Cos(wt - TwoThirdsPi)),
                        RMul(uq, Sin(wt - TwoThirdsPi))), u0)
        uc == RAdd(RSub(RMul(ud, Cos(wt + TwoThirdsPi)),
                        RMul(uq, Sin(wt + TwoThirdsPi))), u0)
    IN  <<ua, ub, uc>>

(***************************************************************************)
(* Specification SpecDq0: a d-q-0 quantity is converted to phase           *)
(* quantities and the phase quantities are converted back at the same wt.  *)
(***************************************************************************)
\* The d, q and 0 components range over -MaxAmp..MaxAmp.
MaxAmp == 1

RealInputs == {Int2R(n) : n \in -MaxAmp..MaxAmp}

\* wt ranges over one turn; 2*Pi is the default argument of both transforms.
WtInputs == 0..(2 * Pi)

InitDq0 ==
    /\ args \in [ud : RealInputs, uq : RealInputs, u0 : RealInputs, wt : WtInputs]
    /\ ret = [dq0_to_abc |-> NotCalled, abc_to_dq0 |-> NotCalled]

Call_dq0_to_abc ==
    /\ ret.dq0_to_abc = NotCalled
    /\ ret' = [ret EXCEPT !.dq0_to_abc = dq0_to_abc(args.ud, args.uq, args.u0, args.wt)]
    /\ UNCHANGED args

\* abc_to_dq0(*dq0_to_abc(ud, uq, u0, wt), wt)
Call_abc_to_dq0 ==
    /\ ret.dq0_to_abc # NotCalled
    /\ ret.abc_to_dq0 = NotCalled
    /\ ret' = [ret EXCEPT !.abc_to_dq0 =
                 abc_to_dq0(ret.dq0_to_abc[1], ret.dq0_to_abc[2], ret.dq0_to_abc[3], args.wt)]
    /\ UNCHANGED args

NextDq0 == Call_dq0_to_abc \/ Call_abc_to_dq0

SpecDq0 == InitDq0 /\ [][NextDq0]_vars

\* C1: converting (ud, uq, u0) to phase quantities with dq0_to_abc and the
\* three results back with abc_to_dq0 at the same wt returns (ud, uq, u0).
C1_RoundTrip ==
    ret.abc_to_dq0 # NotCalled => ret.abc_to_dq0 = <<args.ud, args.uq, args.u0>>

\* Both transforms have run on a quantity with nonzero d, q and 0 parts at an
\* angle that is not a multiple of a quarter turn.
C1_Witness ==
    /\ ret.abc_to_dq0 # NotCalled
    /\ ~RIsZero(args.ud) /\ ~RIsZero(args.uq) /\ ~RIsZero(args.u0)
    /\ args.wt % (Pi \div 2) # 0

(***************************************************************************)
(* Phase shifting and symmetrical components.                              *)
(***************************************************************************)
\* (4/3)*math.pi
FourThirdsPi == (4 * Pi) \div 3

\* Ub_calc(Ua): phase A quantity to phase B.
Ub_calc(Ua) == CMul(Ua, ExpJ(-TwoThirdsPi))

\* Uc_calc(Ua): phase A quantity to phase C.
Uc_calc(Ua) == CMul(Ua, ExpJ(TwoThirdsPi))

\* phasor_to_symmetrical with the rotation operators a and aa exchanged.
phasor_to_symmetrical_swapped(upha, uphb, uphc) ==
    LET a == ExpJ(FourThirdsPi)
        aa == ExpJ(TwoThirdsPi)
        u0 == CScale(Rat(1, 3), CAdd(CAdd(upha, uphb), uphc))
        u1 == CScale(Rat(1, 3), CAdd(CAdd(upha, CMul(a, uphb)), CMul(aa, uphc)))
        u2 == CScale(Rat(1, 3), CAdd(CAdd(upha, CMul(aa, uphb)), CMul(a, uphc)))
    IN  <<u0, u1, u2>>

\* phasor_to_symmetrical(upha, uphb, uphc): (u0, u1, u2).
phasor_to_symmetrical(upha, uphb, uphc) ==
    LET a == ExpJ(TwoThirdsPi)
        aa == ExpJ(FourThirdsPi)
        u0 == CScale(Rat(1, 3), CAdd(CAdd(upha, uphb), uphc))
        u1 == CScale(Rat(1, 3), CAdd(CAdd(upha, CMul(a, uphb)), CMul(aa, uphc)))
        u2 == CScale(Rat(1, 3), CAdd(CAdd(upha, CMul(aa, uphb)), CMul(a, uphc)))
    IN  <<u0, u1, u2>>

phasor_to_zero_sequence(upha, uphb, uphc) ==
    LET u0 == phasor_to_symmetrical(upha, uphb, uphc)[1]
    IN  <<u0, u0, u0>>

phasor_to_positive_sequence(upha, uphb, uphc) ==
    LET u1 == phasor_to_symmetrical(upha, uphb, uphc)[2]
    IN  <<u1, CMul(u1, ExpJ(FourThirdsPi)), CMul(u1, ExpJ(TwoThirdsPi))>>

phasor_to_negative_sequence(upha, uphb, uphc) ==
    LET u2 == phasor_to_symmetrical(upha, uphb, uphc)[3]
    IN  <<u2, CMul(u2, ExpJ(FourThirdsPi)), CMul(u2, ExpJ(TwoThirdsPi))>>

(***************************************************************************)
(* Specification SpecSeq: the four sequence functions are applied, in any  *)
(* order, to one triple of phasors drawn from the Gaussian integers.       *)
(***************************************************************************)
\* Real and imaginary parts of the input phasors range over -MaxPh..MaxPh.
MaxPh == 1

PhasorInputs == {Cx(Int2R(x), Int2R(y)) : x \in -MaxPh..MaxPh, y \in -MaxPh..MaxPh}

InitSeq ==
    /\ args \in [upha : PhasorInputs, uphb : PhasorInputs, uphc : PhasorInputs]
    /\ ret = [phasor_to_symmetrical |-> NotCalled,
              phasor_to_zero_sequence |-> NotCalled,
              phasor_to_positive_sequence |-> NotCalled,
              phasor_to_negative_sequence |-> NotCalled]

Call_phasor_to_symmetrical ==
    /\ ret.phasor_to_symmetrical = NotCalled
    /\ ret' = [ret EXCEPT !.phasor_to_symmetrical =
                 phasor_to_symmetrical(args.upha, args.uphb, args.uphc)]
    /\ UNCHANGED args

Call_phasor_to_zero_sequence ==
    /\ ret.phasor_to_zero_sequence = NotCalled
    /\ ret' = [ret EXCEPT !.phasor_to_zero_sequence =
                 phasor_to_zero_sequence(args.upha, args.uphb, args.uphc)]
    /\ UNCHANGED args

Call_phasor_to_positive_sequence ==
    /\ ret.phasor_to_positive_sequence = NotCalled
    /\ ret' = [ret EXCEPT !.phasor_to_positive_sequence =
                 phasor_to_positive_sequence(args.upha, args.uphb, args.uphc)]
    /\ UNCHANGED args

Call_phasor_to_negative_sequence ==
    /\ ret.phasor_to_negative_sequence = NotCalled
    /\ ret' = [ret EXCEPT !.phasor_to_negative_sequence =
                 phasor_to_negative_sequence(args.upha, args.uphb, args.uphc)]
    /\ UNCHANGED args

NextSeq ==
    \/ Call_phasor_to_symmetrical
    \/ Call_phasor_to_zero_sequence
    \/ Call_phasor_to_positive_sequence
    \/ Call_phasor_to_negative_sequence

SpecSeq == InitSeq /\ [][NextSeq]_vars

\* A phasor rotated by k units of pi/6.
Rotated(z, k) == CMul(z, ExpJ(k))

\* C2: the positive-sequence set is (u1, u1 rotated by -120 degrees, u1
\* rotated by +120 degrees) and the negative-sequence set is (u2, u2 rotated
\* by +120 degrees, u2 rotated by -120 degrees), (u0, u1, u2) being the result
\* of phasor_to_symmetrical on the same phasors.
C2_OppositeRotations ==
    (/\ ret.phasor_to_symmetrical # NotCalled
     /\ ret.phasor_to_positive_sequence # NotCalled
     /\ ret.phasor_to_negative_sequence # NotCalled)
    => LET u1 == ret.phasor_to_symmetrical[2]
           u2 == ret.phasor_to_symmetrical[3]
       IN  /\ ret.phasor_to_positive_sequence =
                <<u1, Rotated(u1, -TwoThirdsPi), Rotated(u1, TwoThirdsPi)>>
           /\ ret.phasor_to_negative_sequence =
                <<u2, Rotated(u2, TwoThirdsPi), Rotated(u2, -TwoThirdsPi)>>

\* C10: adding, phase by phase, the zero-, positive- and negative-sequence
\* sets of a triple of phasors gives the triple back.
C10_Superposition ==
    (/\ ret.phasor_to_zero_sequence # NotCalled
     /\ ret.phasor_to_positive_sequence # NotCalled
     /\ ret.phasor_to_negative_sequence # NotCalled)
    => \A p \in 1..3 :
         CAdd(CAdd(ret.phasor_to_zero_sequence[p], ret.phasor_to_positive_sequence[p]),
              ret.phasor_to_negative_sequence[p])
           = <<args.upha, args.uphb, args.uphc>>[p]

(***************************************************************************)
(* Specification SpecBalanced: phases B and C are derived from a phase A   *)
(* phasor with Ub_calc and Uc_calc, and the balanced set is decomposed.    *)
(***************************************************************************)
\* Real and imaginary parts of the phase A phasor range over -MaxBal..MaxBal.
MaxBal == 2

BalancedInputs == {Cx(Int2R(x), Int2R(y)) : x \in -MaxBal..MaxBal, y \in -MaxBal..MaxBal}

InitBalanced ==
    /\ args \in [upha : BalancedInputs]
    /\ ret = [Ub_calc |-> NotCalled, Uc_calc |-> NotCalled,
              phasor_to_symmetrical |-> NotCalled]

Call_Ub_calc ==
    /\ ret.Ub_calc = NotCalled
    /\ ret' = [ret EXCEPT !.Ub_calc = <<Ub_calc(args.upha)>>]
    /\ UNCHANGED args

Call_Uc_calc ==
    /\ ret.Uc_calc = NotCalled
    /\ ret' = [ret EXCEPT !.Uc_calc = <<Uc_calc(args.upha)>>]
    /\ UNCHANGED args

\* phasor_to_symmetrical(Ua, Ub_calc(Ua), Uc_calc(Ua))
Call_phasor_to_symmetrical_balanced ==
    /\ ret.Ub_calc # NotCalled
    /\ ret.Uc_calc # NotCalled
    /\ ret.phasor_to_symmetrical = NotCalled
    /\ ret' = [ret EXCEPT !.phasor_to_symmetrical =
                 phasor_to_symmetrical(args.upha, ret.Ub_calc[1], ret.Uc_calc[1])]
    /\ UNCHANGED args

NextBalanced ==
    \/ Call_Ub_calc
    \/ Call_Uc_calc
    \/ Call_phasor_to_symmetrical_balanced

SpecBalanced == InitBalanced /\ [][NextBalanced]_vars

\* C3: on the balanced set (a, a rotated by -120 degrees, a rotated by +120
\* degrees) phasor_to_symmetrical returns u0 = 0, u1 = a and u2 = 0.
C3_BalancedSet ==
    ret.phasor_to_symmetrical # NotCalled
    => (/\ ret.Ub_calc[1] = Rotated(args.upha, -TwoThirdsPi)
        /\ ret.Uc_calc[1] = Rotated(args.upha, TwoThirdsPi)
        /\ ret.phasor_to_symmetrical = <<CZero, args.upha, CZero>>)

\* A balanced set built on a phasor with nonzero real and imaginary parts has
\* been decomposed.
C3_Witness ==
    /\ ret.phasor_to_symmetrical # NotCalled
    /\ ~RIsZero(args.upha.re) /\ ~RIsZero(args.upha.im)

(***************************************************************************)
(* Limiting.                                                               *)
(***************************************************************************)
\* The integer square root of a perfect square.
ISqrt(n) == CHOOSE i \in 0..n : i * i = n

\* abs(z): sqrt(re^2 + im^2), for a phasor whose magnitude is rational.
CAbs(z) ==
    LET sq == RAdd(RMul(z.re, z.re), RMul(z.im, z.im))
    IN  Q3(ISqrt(sq.a), 0, ISqrt(sq.d))

\* cmath.phase(z): atan2(im, re) in (-Pi, Pi], for a phasor on the pi/6 grid;
\* the phase of 0 is 0.
CPhase(z) ==
    IF z = CZero THEN 0
    ELSE CHOOSE k \in (1 - Pi)..Pi : z = CScale(CAbs(z), ExpJ(k))

\* cmath.polar(z)
Polar(z) == <<CAbs(z), CPhase(z)>>

\* cmath.rect(r, phi)
Rect(r, phi) == Cx(RMul(r, Cos(phi)), RMul(r, Sin(phi)))

\* limit_complex with the lower limit applied to its absolute value.
limit_complex_abs_low(z, low_limit, high_limit) ==
    LET phi == Polar(z)[2]
        absLow == IF RSign(low_limit) < 0 THEN RNeg(low_limit) ELSE low_limit
        r == RMin(RMax(Polar(z)[1], absLow), high_limit)
    IN  Rect(r, phi)

\* limit_complex with the phase negated on reconstruction.
limit_complex_neg_phi(z, low_limit, high_limit) ==
    LET phi == Polar(z)[2]
        r == RMin(RMax(Polar(z)[1], low_limit), high_limit)
    IN  Rect(r, -phi)

\* limit_complex(z, low_limit, high_limit)
limit_complex(z, low_limit, high_limit) ==
    LET phi == Polar(z)[2]
        r == RMin(RMax(Polar(z)[1], low_limit), high_limit)
    IN  Rect(r, phi)

(***************************************************************************)
(* Specification SpecLimit: limit_complex is applied to a phasor on the    *)
(* pi/6 grid with limits drawn from the half-integers.                     *)
(***************************************************************************)
\* Magnitudes of the input phasors are n/2 for n in 0..MaxMag2.
MaxMag2 == 4
\* The limits are n/2 for n in -MaxLim2..MaxLim2.
MaxLim2 == 2

LimitPhasors == {CScale(Rat(n, 2), ExpJ(k)) : n \in 0..MaxMag2, k \in (1 - Pi)..Pi}
LimitValues == {Rat(n, 2) : n \in -MaxLim2..MaxLim2}

InitLimit ==
    /\ args \in [z : LimitPhasors, low_limit : LimitValues, high_limit : LimitValues]
    /\ ret = [limit_complex |-> NotCalled]

Call_limit_complex ==
    /\ ret.limit_complex = NotCalled
    /\ ret' = [ret EXCEPT !.limit_complex =
                 <<limit_complex(args.z, args.low_limit, args.high_limit)>>]
    /\ UNCHANGED args

NextLimit == Call_limit_complex

SpecLimit == InitLimit /\ [][NextLimit]_vars

\* |z| clamped into [low, high].
Clamped(r, low, high) == IF RLt(r, low) THEN low ELSE IF RLt(high, r) THEN high ELSE r

\* The result has the phase of z and the magnitude of z clamped into the limits.
PhaseKeptMagnitudeClamped ==
    /\ CPhase(ret.limit_complex[1]) = CPhase(args.z)
    /\ CAbs(ret.limit_complex[1]) = Clamped(CAbs(args.z), args.low_limit, args.high_limit)

\* C4 as stated: for all limits low <= high, the result has the phase of z and
\* the magnitude of z clamped into [low, high].
C4_AnyLimits ==
    (ret.limit_complex # NotCalled /\ RLe(args.low_limit, args.high_limit))
    => PhaseKeptMagnitudeClamped

\* C4 amended: for all limits low <= high with high > 0, the result has the
\* phase of z and the magnitude of z clamped into [low, high].
C4_PositiveHigh ==
    (/\ ret.limit_complex # NotCalled
     /\ RLe(args.low_limit, args.high_limit)
     /\ RSign(args.high_limit) > 0)
    => PhaseKeptMagnitudeClamped

\* A phasor off the real axis has had its magnitude changed by limits
\* low <= high with high > 0.
C4_Witness ==
    /\ ret.limit_complex # NotCalled
    /\ RLe(args.low_limit, args.high_limit)
    /\ RSign(args.high_limit) > 0
    /\ ~RIsZero(args.z.im)
    /\ ret.limit_complex[1] # args.z

DefaultLimits == args.low_limit = Int2R(-1) /\ args.high_limit = Int2R(1)

\* C5: with the default limits (-1, 1) a phasor of magnitude at most 1 is
\* returned unchanged, and a phasor of magnitude above 1 is returned with
\* magnitude 1 at its own phase.
C5_DefaultLimits ==
    (ret.limit_complex # NotCalled /\ DefaultLimits)
    => IF RLe(CAbs(args.z), Int2R(1))
       THEN ret.limit_complex[1] = args.z
       ELSE /\ CAbs(ret.limit_complex[1]) = Int2R(1)
            /\ CPhase(ret.limit_complex[1]) = CPhase(args.z)

\* limit_complex has run with the default limits on a phasor of magnitude
\* below 1 off the real axis.
C5_Witness ==
    /\ ret.limit_complex # NotCalled
    /\ DefaultLimits
    /\ RLt(CAbs(args.z), Int2R(1))
    /\ ~RIsZero(args.z.im)
    /\ ~RIsZero(args.z.re)

(***************************************************************************)
(* Results of the functions that divide by an argument.  Both the          *)
(* interpreter and the compiled function (numba's default error model is   *)
(* "python") raise ZeroDivisionError on a zero divisor.  A result is a     *)
(* record [kind, val]: kind "value" with the value returned, or kind       *)
(* "ZeroDivisionError" when the call raised; kinds "inf" and "nan" stand   *)
(* for the IEEE-754 results that a division without the check would return.*)
(***************************************************************************)
Returned(v) == [kind |-> "value", val |-> v]
Raised(e) == [kind |-> e, val |-> Int2R(0)]
Special(s) == [kind |-> s, val |-> Int2R(0)]

\* Python's max and min of three reals.
RMax3(x, y, z) == RMax(RMax(x, y), z)
RMin3(x, y, z) == RMin(RMin(x, y), z)

\* Uunbalance_calc under IEEE-754 division: x/0 is inf or nan, never an error.
Uunbalance_calc_ieee(ua, ub, uc) ==
    LET uavg == RDiv(RAdd(RAdd(ua, ub), uc), Int2R(3))
        spread == RSub(RMax3(ua, ub, uc), RMin3(ua, ub, uc))
    IN  IF RIsZero(uavg)
        THEN (IF RIsZero(spread) THEN Special("nan") ELSE Special("inf"))
        ELSE Returned(RDiv(spread, uavg))

\* Uunbalance_calc(ua, ub, uc)
Uunbalance_calc(ua, ub, uc) ==
    LET uavg == RDiv(RAdd(RAdd(ua, ub), uc), Int2R(3))
    IN  IF RIsZero(uavg)
        THEN Raised("ZeroDivisionError")
        ELSE Returned(RDiv(RSub(RMax3(ua, ub, uc), RMin3(ua, ub, uc)), uavg))

(***************************************************************************)
(* Specification SpecUnbalance: Uunbalance_calc is applied to three reals. *)
(***************************************************************************)
\* The three quantities range over -MaxU..MaxU.
MaxU == 2

UnbalanceInputs == {Int2R(n) : n \in -MaxU..MaxU}

InitUnbalance ==
    /\ args \in [ua : UnbalanceInputs, ub : UnbalanceInputs, uc : UnbalanceInputs]
    /\ ret = [Uunbalance_calc |-> NotCalled]

Call_Uunbalance_calc ==
    /\ ret.Uunbalance_calc = NotCalled
    /\ ret' = [ret EXCEPT !.Uunbalance_calc =
                 <<Uunbalance_calc(args.ua, args.ub, args.uc)>>]
    /\ UNCHANGED args

NextUnbalance == Call_Uunbalance_calc

SpecUnbalance == InitUnbalance /\ [][NextUnbalance]_vars

ZeroMean == RIsZero(RAdd(RAdd(args.ua, args.ub), args.uc))

\* C7 as stated: on inputs whose mean is zero Uunbalance_calc raises no error
\* and returns a propagated inf or NaN.
C7_PropagatesInfNaN ==
    (ret.Uunbalance_calc # NotCalled /\ ZeroMean)
    => ret.Uunbalance_calc[1].kind \in {"inf", "nan"}

\* C7 amended: on inputs whose mean is zero Uunbalance_calc raises
\* ZeroDivisionError and returns no value; on every other input it returns
\* (max - min)/mean.
C7_RaisesZeroDivision ==
    ret.Uunbalance_calc # NotCalled
    => IF ZeroMean
       THEN ret.Uunbalance_calc[1].kind = "ZeroDivisionError"
       ELSE /\ ret.Uunbalance_calc[1].kind = "value"
            /\ RMul(ret.Uunbalance_calc[1].val,
                    RAdd(RAdd(args.ua, args.ub), args.uc))
                 = RMul(Int2R(3), RSub(RMax3(args.ua, args.ub, args.uc),
                                       RMin3(args.ua, args.ub, args.uc)))

\* Uunbalance_calc has run on unequal inputs whose mean is zero.
C7_Witness ==
    /\ ret.Uunbalance_calc # NotCalled
    /\ ZeroMean
    /\ args.ua # args.ub

(***************************************************************************)
(* Apparent power.                                                         *)
(***************************************************************************)
\* S_calc without the conjugate of the currents.
S_calc_no_conjugate(va, vb, vc, ia, ib, ic) ==
    CScale(Rat(1, 2), CAdd(CAdd(CMul(va, ia), CMul(vb, ib)), CMul(vc, ic)))

\* S_calc(va, vb, vc, ia, ib, ic)
S_calc(va, vb, vc, ia, ib, ic) ==
    CScale(Rat(1, 2),
           CAdd(CAdd(CMul(va, Conj(ia)), CMul(vb, Conj(ib))), CMul(vc, Conj(ic))))

(***************************************************************************)
(* Specification SpecS: S_calc is applied to the voltages and currents of  *)
(* a load with the same resistance R > 0 in each phase, i = v/R.           *)
(***************************************************************************)
\* Real and imaginary parts of the voltages range over -MaxV..MaxV.
MaxV == 1
\* The resistance ranges over 1..MaxR.
MaxR == 2

VoltageInputs == {Cx(Int2R(x), Int2R(y)) : x \in -MaxV..MaxV, y \in -MaxV..MaxV}

\* The current a voltage drives through a resistance.
Through(v, R) == Cx(RDiv(v.re, Int2R(R)), RDiv(v.im, Int2R(R)))

InitS ==
    /\ \E va \in VoltageInputs, vb \in VoltageInputs, vc \in VoltageInputs, R \in 1..MaxR :
         args = [va |-> va, vb |-> vb, vc |-> vc, R |-> R,
                 ia |-> Through(va, R), ib |-> Through(vb, R), ic |-> Through(vc, R)]
    /\ ret = [S_calc |-> NotCalled]

Call_S_calc ==
    /\ ret.S_calc = NotCalled
    /\ ret' = [ret EXCEPT !.S_calc =
                 <<S_calc(args.va, args.vb, args.vc, args.ia, args.ib, args.ic)>>]
    /\ UNCHANGED args

NextS == Call_S_calc

SpecS == InitS /\ [][NextS]_vars

\* |v|^2
AbsSquared(v) == RAdd(RMul(v.re, v.re), RMul(v.im, v.im))

\* C9: on a purely resistive load with the same resistance R > 0 in each
\* phase, the imaginary part of S_calc is zero and its real part is half the
\* sum of |v|^2/R over the three phases.
C9_ResistiveLoad ==
    ret.S_calc # NotCalled
    => /\ RIsZero(ret.S_calc[1].im)
       /\ ret.S_calc[1].re =
            RDiv(RAdd(RAdd(AbsSquared(args.va), AbsSquared(args.vb)), AbsSquared(args.vc)),
                 Int2R(2 * args.R))

\* S_calc has run on a resistive load whose three voltages all have nonzero
\* real and imaginary parts and differ from each other.
C9_Witness ==
    /\ ret.S_calc # NotCalled
    /\ \A v \in {args.va, args.vb, args.vc} : ~RIsZero(v.re) /\ ~RIsZero(v.im)
    /\ Cardinality({args.va, args.vb, args.vc}) = 3
    /\ args.R > 1

(***************************************************************************)
(* PV module power.  The diode equation is evaluated in fixed point:       *)
(* currents are integers in units of 1e-11 A (Irs = 1.2e-7 A is 12000),    *)
(* math.exp is taken at the integer nearest to its argument from a table   *)
(* of e^n to three decimals, and the power returned is a rational in units *)
(* of 1e-11 per unit.  Iph is given in units of 1e-8 A, Vdc_actual in V,   *)
(* Tactual in K.                                                           *)
(***************************************************************************)
\* Irs = 1.2e-7, in units of 1e-8 A.
IrsE8 == 12
\* q = 1.602e-19, in units of 1e-22 C.
qE22 == 1602
\* k = 1.38e-23, in units of 1e-25 J/K.
kE25 == 138
\* A = 1.92, in hundredths.
AE2 == 192

\* n/d rounded to the nearest integer, d > 0.
RoundDiv(n, d) == (n + d \div 2) \div d

\* 1000 * math.exp(n), rounded, for integer n.
ExpMilli(n) ==
    CASE n <= -7 -> 0
      [] n = -6 -> 2
      [] n = -5 -> 7
      [] n = -4 -> 18
      [] n = -3 -> 50
      [] n = -2 -> 135
      [] n = -1 -> 368
      [] n = 0 -> 1000
      [] n = 1 -> 2718
      [] n = 2 -> 7389
      [] n = 3 -> 20086
      [] n = 4 -> 54598
      [] n = 5 -> 148413
      [] n = 6 -> 403429
      [] n = 7 -> 1096633
      [] n = 8 -> 2980958

\* (q*Vdc_actual)/(k*Tactual*A*Ns), to the nearest integer; the powers of ten
\* of q, k and A combine to 10^(-22+25+2).
ExpArg(Ns, Vdc_actual, Tactual) ==
    RoundDiv(qE22 * 100000 * Vdc_actual, kE25 * Tactual * AE2 * Ns)

\* Ipv = (Np*Iph)-(Np*Irs*(math.exp((q*Vdc_actual)/(k*Tactual*A*Ns))-1)),
\* in units of 1e-11 A.
Ipv_calc(Iph, Np, Ns, Vdc_actual, Tactual) ==
    (Np * Iph * 1000) - (Np * IrsE8 * (ExpMilli(ExpArg(Ns, Vdc_actual, Tactual)) - 1000))

\* Python's max(0, x) of an integer.
Max0(x) == IF 0 < x THEN x ELSE 0

\* Ppv_calc without the clamp at zero.
Ppv_calc_unclamped(Iph, Np, Ns, Vdc_actual, Tactual, Sbase) ==
    IF kE25 * Tactual * AE2 * Ns = 0 THEN Raised("ZeroDivisionError")
    ELSE IF Sbase = 0 THEN Raised("ZeroDivisionError")
    ELSE Returned(Rat(Ipv_calc(Iph, Np, Ns, Vdc_actual, Tactual) * Vdc_actual, Sbase))

\* Ppv_calc(Iph, Np, Ns, Vdc_actual, Tactual, Sbase)
Ppv_calc(Iph, Np, Ns, Vdc_actual, Tactual, Sbase) ==
    IF kE25 * Tactual * AE2 * Ns = 0 THEN Raised("ZeroDivisionError")
    ELSE IF Sbase = 0 THEN Raised("ZeroDivisionError")
    ELSE Returned(Rat(Max0(Ipv_calc(Iph, Np, Ns, Vdc_actual, Tactual) * Vdc_actual), Sbase))

(***************************************************************************)
(* Specification SpecPpv: Ppv_calc is applied to a small array.            *)
(***************************************************************************)
\* Vdc_actual ranges over -MaxVdc..MaxVdc volts.
MaxVdc == 5
\* Np ranges over 1..MaxNp.
MaxNp == 2
\* Sbase ranges over -1..MaxSbase.
MaxSbase == 2

\* Photocurrents of 0, 1 uA and 0.2 mA.
IphInputs == {0, 100, 20000}
\* Cells in series for which one volt is about one unit of the exponent at
\* 300 K, and twice as many.
NsInputs == {20, 40}
\* 0 K makes the denominator of the exponent zero.
TactualInputs == {0, 300}

InitPpv ==
    /\ args \in [Iph : IphInputs, Np : 1..MaxNp, Ns : NsInputs,
                 Vdc_actual : -MaxVdc..MaxVdc, Tactual : TactualInputs,
                 Sbase : -1..MaxSbase]
    /\ ret = [Ppv_calc |-> NotCalled]

Call_Ppv_calc ==
    /\ ret.Ppv_calc = NotCalled
    /\ ret' = [ret EXCEPT !.Ppv_calc =
                 <<Ppv_calc(args.Iph, args.Np, args.Ns, args.Vdc_actual,
                            args.Tactual, args.Sbase)>>]
    /\ UNCHANGED args

NextPpv == Call_Ppv_calc

SpecPpv == InitPpv /\ [][NextPpv]_vars

\* The product Ipv*Vdc_actual of the diode model on the inputs of the call.
DiodeProduct ==
    Ipv_calc(args.Iph, args.Np, args.Ns, args.Vdc_actual, args.Tactual) * args.Vdc_actual

\* C6: for Sbase > 0 Ppv_calc never raises for a negative result (it raises
\* only when the denominator of the exponent is zero), and the value it
\* returns is >= 0, is 0 whenever Ipv*Vdc <= 0, in particular for Vdc = 0,
\* and is Ipv*Vdc/Sbase otherwise.
C6_ClampedAtZero ==
    (ret.Ppv_calc # NotCalled /\ args.Sbase > 0)
    => IF args.Tactual * args.Ns = 0
       THEN ret.Ppv_calc[1].kind = "ZeroDivisionError"
       ELSE /\ ret.Ppv_calc[1].kind = "value"
            /\ RSign(ret.Ppv_calc[1].val) >= 0
            /\ (DiodeProduct <= 0 => RIsZero(ret.Ppv_calc[1].val))
            /\ (args.Vdc_actual = 0 => RIsZero(ret.Ppv_calc[1].val))
            /\ (DiodeProduct > 0 => ret.Ppv_calc[1].val = Rat(DiodeProduct, args.Sbase))

\* Ppv_calc has run, with Sbase > 0, at a positive voltage where the diode
\* current is negative.
C6_Witness ==
    /\ ret.Ppv_calc # NotCalled
    /\ args.Sbase > 0 /\ args.Tactual # 0
    /\ args.Vdc_actual > 0
    /\ DiodeProduct < 0

(***************************************************************************)
(* Relative phase.  relative_phase_calc normalises with the floating-point *)
(* operator %, whose result depends on rounding, so this function is       *)
(* evaluated in binary floating point with round-to-nearest-even.  The     *)
(* format is IEEE-754's with a narrower significand: a float is an integer *)
(* count n of quanta 2^-FracBits (the subnormal spacing) that has at most  *)
(* Precision significant bits.                                             *)
(***************************************************************************)
\* Significant bits of a float (53 in the double format).
Precision == 10
\* A float is a multiple of 2^-FracBits.
FracBits == 20

RECURSIVE Pow2(_)
Pow2(k) == IF k <= 0 THEN 1 ELSE 2 * Pow2(k - 1)

RECURSIVE BitLen(_)
BitLen(n) == IF n = 0 THEN 0 ELSE 1 + BitLen(Abs(n) \div 2)

\* n rounded to a multiple of 2^k, ties to the even multiple.
RoundTo(n, k) ==
    IF k <= 0 THEN n
    ELSE LET q == Abs(n) \div Pow2(k)
             r == Abs(n) % Pow2(k)
             half == Pow2(k - 1)
             up == r > half \/ (r = half /\ q % 2 = 1)
             m == (IF up THEN q + 1 ELSE q) * Pow2(k)
         IN  IF n < 0 THEN -m ELSE m

\* The float nearest to n quanta.
FRound(n) == RoundTo(n, BitLen(n) - Precision)

\* The float nearest to M * 2^e quanta.
FFromScaled(M, e) ==
    IF e >= 0 THEN FRound(M * Pow2(e))
    ELSE LET k == IF BitLen(M) + e > Precision THEN BitLen(M) + e - Precision ELSE 0
         IN  RoundTo(M, k - e) \div Pow2(-e)

\* The exponent of the largest power of two dividing n # 0.
RECURSIVE TrailingZeros(_)
TrailingZeros(n) == IF n = 0 \/ n % 2 = 1 THEN 0 ELSE 1 + TrailingZeros(n \div 2)

\* Float addition, subtraction and multiplication: the exact result, rounded.
FAdd(x, y) == FRound(x + y)
FSub(x, y) == FRound(x - y)
FMul(x, y) ==
    LET kx == TrailingZeros(Abs(x))
        ky == TrailingZeros(Abs(y))
    IN  FFromScaled((x \div Pow2(kx)) * (y \div Pow2(ky)), kx + ky - FracBits)

\* The float of an integer.
FInt(n) == n * Pow2(FracBits)

\* pi * 2^29, 180/pi * 2^24 and pi/180 * 2^36, to the nearest integer.
PiE29 == 1686629713
RadToDegE24 == 961263669
DegToRadE36 == 1199381129

\* math.pi, and the factors of math.degrees and math.radians, as floats.
PiF == FFromScaled(PiE29, FracBits - 29)
RadToDegF == FFromScaled(RadToDegE24, FracBits - 24)
DegToRadF == FFromScaled(DegToRadE36, FracBits - 36)

\* math.degrees(x) and math.radians(x)
Degrees(x) == FMul(x, RadToDegF)
Radians(x) == FMul(x, DegToRadF)

\* C's fmod(x, y), y > 0: exact, with the sign of x.
CFmod(x, y) == IF x < 0 THEN -((-x) % y) ELSE x % y

\* The float operator x % y, y > 0: fmod, and a remainder of the other
\* sign has y added to it, in floating point.
PyMod(x, y) ==
    LET mod == CFmod(x, y)
    IN  IF mod # 0 /\ mod < 0 THEN FAdd(mod, y) ELSE mod

\* The largest |im| for which atan(im) rounds to im itself.
SmallAngleMax == Pow2(FracBits - (Precision \div 2) - 1)

\* cmath.phase(z) = atan2(z.im, z.re), on the phasors drawn here: those
\* on the axes, and those with real part 1 and a small imaginary part, whose
\* phase atan(im) rounds to im.
FPhase(z) ==
    CASE z.re = FInt(1) /\ Abs(z.im) <= SmallAngleMax -> z.im
      [] z.re < 0 /\ z.im = 0 -> PiF
      [] z.re = 0 /\ z.im > 0 -> PiF \div 2
      [] z.re = 0 /\ z.im < 0 -> -(PiF \div 2)

\* relative_phase_calc(Uph1, Uph2, DEGREES)
relative_phase_calc(Uph1, Uph2, DEGREES) ==
    IF DEGREES
    THEN PyMod(Degrees(FSub(FPhase(Uph1), FPhase(Uph2))), FInt(360))
    ELSE Radians(PyMod(Degrees(FSub(FPhase(Uph1), FPhase(Uph2))), FInt(360)))

(***************************************************************************)
(* Specification SpecRelPhase: relative_phase_calc is applied to two       *)
(* phasors, each on an axis or within a few quanta of the real axis.       *)
(***************************************************************************)
\* The imaginary parts of the phasors near the real axis are -MaxTiny..MaxTiny
\* quanta.
MaxTiny == 2

FloatPhasors ==
    {[re |-> FInt(1), im |-> t] : t \in -MaxTiny..MaxTiny}
    \cup {[re |-> 0, im |-> FInt(1)], [re |-> FInt(-1), im |-> 0],
          [re |-> 0, im |-> FInt(-1)]}

InitRelPhase ==
    /\ args \in [Uph1 : FloatPhasors, Uph2 : FloatPhasors, DEGREES : BOOLEAN]
    /\ ret = [relative_phase_calc |-> NotCalled]

Call_relative_phase_calc ==
    /\ ret.relative_phase_calc = NotCalled
    /\ ret' = [ret EXCEPT !.relative_phase_calc =
                 <<relative_phase_calc(args.Uph1, args.Uph2, args.DEGREES)>>]
    /\ UNCHANGED args

NextRelPhase == Call_relative_phase_calc

SpecRelPhase == InitRelPhase /\ [][NextRelPhase]_vars

\* C8: the result of relative_phase_calc is never negative and never the
\* upper end of its range: it lies in [0, 360) when DEGREES is true and in
\* [0, 2*pi) when DEGREES is false.
C8_HalfOpenRange ==
    ret.relative_phase_calc # NotCalled
    => /\ ret.relative_phase_calc[1] >= 0
       /\ ret.relative_phase_calc[1] < (IF args.DEGREES THEN FInt(360) ELSE 2 * PiF)

====
